---- MODULE Spec2Model ----
(***************************************************************************)
(* HomeSense Basic firmware (HomeSenseBasicFirmware.ino) as a state        *)
(* machine.  One action per collaborator call of setup(), setup_wifi(),    *)
(* reconnect(), callback() and loop(); the environment (WiFi link, broker  *)
(* connection, sensor health, passing of time) acts between them.          *)
(*                                                                         *)
(* Numbers: millisecond values (millis(), next_report_time) are unsigned   *)
(* 32-bit, kept as two 16-bit limbs [hi, lo] so that the arithmetic is     *)
(* exactly modulo 2^32.  float values are kept in thousandths.             *)
(***************************************************************************)
EXTENDS Integers, Sequences, FiniteSets, TLC

(***************************************************************************)
(* Bounds of the model                                                     *)
(***************************************************************************)
\* the environment lets time pass and connects fail only below this clock (ms)
MaxClock == 6000
\* the WiFi link comes up after at most this many failed status polls
MaxWifiPolls == 1
\* at most this many connect attempts of one reconnect() call fail or are
\* followed by a connection loss inside reconnect()
MaxAttempts == 2
\* after a long uptime the clock is read again this many milliseconds more
\* than one reporting interval before it wraps
WrapMargin == 286

\* hardware chip identifiers (ESP.getChipId()) the model is run for
ChipIds == {41394, 14246255}
\* durations (ms) the environment may let pass between two steps
Lapses == {2000, 5000}
\* raw sensor readings, in thousandths
RawTemperatures == {21500, 2900}
RawHumidities == {45000}
RawPressures == {1013254, 99996}
RawTemperatures2 == {3000}
\* inbound messages the broker may deliver to the callback
InboundPayloads == {"on"}

(***************************************************************************)
(* Program constants                                                       *)
(***************************************************************************)
reporting_interval == 5
humidity_adjustment == 0
temperature_adjustment == -3000
pressure_adjustment == 0
temperature_2_adjustment == -3000
ReconnectDelayMs == 5000
WifiPollDelayMs == 500
WifiStartDelayMs == 10

(***************************************************************************)
(* unsigned long: 32-bit unsigned arithmetic on limbs                      *)
(***************************************************************************)
Limb == 65536

U32(n) == [hi |-> (n \div Limb) % Limb, lo |-> n % Limb]

U32Add(a, b) ==
    LET lo == a.lo + b.lo
    IN  [hi |-> (a.hi + b.hi + (lo \div Limb)) % Limb, lo |-> lo % Limb]

U32Geq(a, b) == a.hi > b.hi \/ (a.hi = b.hi /\ a.lo >= b.lo)

\* a - b of two unsigned long values, modulo 2^32
U32Sub(a, b) ==
    LET borrow == IF a.lo < b.lo THEN 1 ELSE 0
    IN  [hi |-> (a.hi - b.hi - borrow + 2 * Limb) % Limb,
         lo |-> (a.lo - b.lo + Limb) % Limb]

\* reporting_interval * 1000, an int converted to unsigned long
IntervalMs == U32(reporting_interval * 1000)

(***************************************************************************)
(* Text rendering: printf %x / String(n, HEX), and dtostrf                 *)
(***************************************************************************)
DecDigits == <<"0", "1", "2", "3", "4", "5", "6", "7", "8", "9">>
HexDigits == DecDigits \o <<"a", "b", "c", "d", "e", "f">>

RECURSIVE ToHex(_)
ToHex(n) == IF n < 16 THEN HexDigits[n + 1]
            ELSE ToHex(n \div 16) \o HexDigits[(n % 16) + 1]

RECURSIVE ToDec(_)
ToDec(n) == IF n < 10 THEN DecDigits[n + 1]
            ELSE ToDec(n \div 10) \o DecDigits[(n % 10) + 1]

RECURSIVE Pow10(_)
Pow10(k) == IF k = 0 THEN 1 ELSE 10 * Pow10(k - 1)

RECURSIVE Spaces(_)
Spaces(k) == IF k <= 0 THEN "" ELSE " " \o Spaces(k - 1)

RECURSIVE FracDigits(_, _)
FracDigits(f, k) == IF k = 0 THEN ""
                    ELSE FracDigits(f \div 10, k - 1) \o DecDigits[(f % 10) + 1]

\* dtostrf(value, width, prec, buf) for a value in thousandths, prec in 1..3:
\* the magnitude is rounded half up at prec decimals, the sign is written
\* after the padding, and the text is right-aligned in width cells at least.
Dtostrf(value, width, prec) ==
    LET negative == value < 0
        mag      == IF negative THEN -value ELSE value
        unit     == Pow10(3 - prec)
        rounded  == (2 * mag + unit) \div (2 * unit)
        whole    == ToDec(rounded \div Pow10(prec))
        body     == whole \o "." \o FracDigits(rounded % Pow10(prec), prec)
        fillme   == width - (prec + 1) - (IF negative THEN 1 ELSE 0) - Len(whole)
    IN  Spaces(fillme) \o (IF negative THEN "-" ELSE "") \o body

\* faulty variant: the topics render the identity with %d where the client
\* identifier uses %x
TopicOf_Decimal(id, channel) == "device/" \o ToDec(id) \o "/" \o channel

\* sprintf(topic, "device/%x/<channel>", ESP.getChipId())
TopicOf(id, channel) == "device/" \o ToHex(id) \o "/" \o channel

\* sprintf(mqtt_client_id, "esp8266-%x", ESP.getChipId())
ClientId(id) == "esp8266-" \o ToHex(id)

\* sprintf(msg, "Device %s starting up", mqtt_client_id)
Announcement(id) == "Device " \o ClientId(id) \o " starting up"

(***************************************************************************)
(* State                                                                   *)
(***************************************************************************)
VARIABLES
    pc,                  \* position of the single thread of control
    chipId,              \* ESP.getChipId()
    device_id,           \* String device_id
    humidity_topic, temperature_topic, pressure_topic,
    temperature_2_topic, command_topic,
    msg,                 \* char msg[75]
    next_report_time,    \* unsigned long next_report_time
    time_now,            \* loop()'s local time_now
    clock,               \* millis()
    wifiStatus,          \* WiFi.status()
    wifiReported,        \* the last WiFi.status() setup_wifi() observed
    connected,           \* client.connected()
    dht12,               \* DHT12 object: cTemp, humidity
    baroOK,              \* BaroSensor.isOK()
    inbound,             \* arguments of the callback being dispatched
    serial,              \* last line written to Serial
    trace,               \* collaborator calls of the current setup()/loop() call
    prevBaro             \* BaroSensor.isOK() in the previous report cycle

topics == <<humidity_topic, temperature_topic, pressure_topic,
            temperature_2_topic, command_topic>>

vars == <<pc, chipId, device_id, humidity_topic, temperature_topic,
          pressure_topic, temperature_2_topic, command_topic, msg,
          next_report_time, time_now, clock, wifiStatus, wifiReported,
          connected, dht12, baroOK, inbound, serial, trace, prevBaro>>

\* a collaborator call: its name, its topic or identifier argument, its text
\* argument or result, and the raw reading (thousandths) it is about
Op(op, topic, val) == [op |-> op, topic |-> topic, val |-> val, raw |-> 0]

Reading(op, topic, val, raw) == [op |-> op, topic |-> topic, val |-> val, raw |-> raw]

Log(op, topic, val) == trace' = Append(trace, Op(op, topic, val))

Bool(b) == IF b THEN "true" ELSE "false"

CountOps(s, name) == Cardinality({i \in 1..Len(s) : s[i].op = name})

NoInbound == [topic |-> "", payload |-> ""]

\* faulty variant: the report timer starts one interval ahead instead of at 0
Init_TimerStartsAtInterval ==
    /\ pc = "setup"
    /\ chipId \in ChipIds
    /\ device_id = "default"
    /\ humidity_topic = "" /\ temperature_topic = "" /\ pressure_topic = ""
    /\ temperature_2_topic = "" /\ command_topic = ""
    /\ msg = ""
    /\ next_report_time = IntervalMs
    /\ time_now = U32(0)
    /\ clock = U32(0)
    /\ wifiStatus = "WL_DISCONNECTED"
    /\ wifiReported = FALSE
    /\ connected = FALSE
    /\ dht12 = [cTemp |-> 0, humidity |-> 0]
    /\ baroOK = FALSE
    /\ inbound = NoInbound
    /\ serial = ""
    /\ trace = <<>>
    /\ prevBaro = "none"

Init ==
    /\ pc = "setup"
    /\ chipId \in ChipIds
    /\ device_id = "default"
    /\ humidity_topic = "" /\ temperature_topic = "" /\ pressure_topic = ""
    /\ temperature_2_topic = "" /\ command_topic = ""
    /\ msg = ""
    /\ next_report_time = U32(0)
    /\ time_now = U32(0)
    /\ clock = U32(0)
    /\ wifiStatus = "WL_DISCONNECTED"
    /\ wifiReported = FALSE
    /\ connected = FALSE
    /\ dht12 = [cTemp |-> 0, humidity |-> 0]
    /\ baroOK = FALSE
    /\ inbound = NoInbound
    /\ serial = ""
    /\ trace = <<>>
    /\ prevBaro = "none"

(***************************************************************************)
(* setup() and setup_wifi()                                                *)
(***************************************************************************)
SetupPcs == {"setup", "setup_wifi", "wifi_wait", "setup_mqtt", "setup_done"}
ReconnectPcs == {"rc_while", "rc_connect", "rc_announce", "rc_subscribe", "rc_delay"}
ReportPcs == {"dht12_get", "pub_temperature", "pub_humidity", "baro_isOK",
              "baro_begin", "pub_pressure", "pub_temperature2"}
LoopPcs == {"loop_top", "poll", "callback", "millis", "timer_check", "loop_end"}
               \cup ReconnectPcs \cup ReportPcs

BelowMaxClock == clock.hi = 0 /\ clock.lo < MaxClock

\* setup(), up to the call of setup_wifi(): identity, topics, their report
Setup ==
    /\ pc = "setup"
    /\ device_id' = ToHex(chipId)
    /\ humidity_topic' = TopicOf(chipId, "humidity")
    /\ temperature_topic' = TopicOf(chipId, "temperature")
    /\ pressure_topic' = TopicOf(chipId, "pressure")
    /\ temperature_2_topic' = TopicOf(chipId, "temperature2")
    /\ command_topic' = TopicOf(chipId, "command")
    /\ serial' = "Command topic:       " \o TopicOf(chipId, "command")
    /\ pc' = "setup_wifi"
    /\ UNCHANGED <<chipId, msg, next_report_time, time_now, clock, wifiStatus,
                   wifiReported, connected, dht12, baroOK, inbound, trace, prevBaro>>

\* setup_wifi(): delay(10), the banner, WiFi.begin(ssid, password)
SetupWifiBegin ==
    /\ pc = "setup_wifi"
    /\ clock' = U32Add(clock, U32(WifiStartDelayMs))
    /\ serial' = "Connecting to SSID "
    /\ Log("WiFi.begin", "", "")
    /\ pc' = "wifi_wait"
    /\ UNCHANGED <<chipId, device_id, topics, msg, next_report_time, time_now,
                   wifiStatus, wifiReported, connected, dht12, baroOK, inbound,
                   prevBaro>>

\* faulty variant: the wait loop is left whatever the status
WifiWaiting_Never(status) == FALSE

\* the condition of setup_wifi()'s while loop
WifiWaiting(status) == status # "WL_CONNECTED"

\* one evaluation of while (WiFi.status() != WL_CONNECTED) and what follows it:
\* delay(500) and a dot, or the rest of setup_wifi()
SetupWifiPoll ==
    /\ pc = "wifi_wait"
    /\ wifiReported' = (wifiStatus = "WL_CONNECTED")
    /\ IF WifiWaiting(wifiStatus)
       THEN /\ CountOps(trace, "delay") < MaxWifiPolls
            /\ clock' = U32Add(clock, U32(WifiPollDelayMs))
            /\ serial' = "."
            /\ trace' = trace \o <<Op("WiFi.status", "", wifiStatus),
                                   Op("delay", "", ToDec(WifiPollDelayMs))>>
            /\ pc' = "wifi_wait"
       ELSE /\ clock' = clock
            /\ serial' = "IP address: "
            /\ Log("WiFi.status", "", wifiStatus)
            /\ pc' = "setup_mqtt"
    /\ UNCHANGED <<chipId, device_id, topics, msg, next_report_time, time_now,
                   wifiStatus, connected, dht12, baroOK, inbound, prevBaro>>

\* the rest of setup(): setServer, setCallback, BaroSensor.begin()
SetupFinish ==
    /\ pc = "setup_mqtt"
    /\ \E ok \in BOOLEAN : baroOK' = ok
    /\ Log("BaroSensor.begin", "", "")
    /\ pc' = "setup_done"
    /\ UNCHANGED <<chipId, device_id, topics, msg, next_report_time, time_now,
                   clock, wifiStatus, wifiReported, connected, dht12, inbound,
                   serial, prevBaro>>

(***************************************************************************)
(* loop(): connectivity check, reconnect(), poll, callback                 *)
(***************************************************************************)
\* what the report cycle of a finished loop() call did with the baro sensor
BaroOutcome(s, prev) ==
    IF \E i \in 1..Len(s) : s[i] = Op("isOK", "", "true") THEN "healthy"
    ELSE IF \E i \in 1..Len(s) : s[i] = Op("isOK", "", "false") THEN "unhealthy"
    ELSE prev

\* the Arduino core calls loop(): after setup(), and again after each return
LoopCall ==
    /\ pc \in {"setup_done", "loop_end"}
    /\ pc' = "loop_top"
    /\ trace' = <<>>
    /\ prevBaro' = IF pc = "loop_end" THEN BaroOutcome(trace, prevBaro) ELSE prevBaro
    /\ UNCHANGED <<chipId, device_id, topics, msg, next_report_time, time_now,
                   clock, wifiStatus, wifiReported, connected, dht12, baroOK,
                   inbound, serial>>

\* if (!client.connected()) reconnect();
LoopCheckConnected ==
    /\ pc = "loop_top"
    /\ Log("connected", "", Bool(connected))
    /\ pc' = IF ~connected THEN "rc_while" ELSE "poll"
    /\ UNCHANGED <<chipId, device_id, topics, msg, next_report_time, time_now,
                   clock, wifiStatus, wifiReported, connected, dht12, baroOK,
                   inbound, serial, prevBaro>>

\* faulty variant: if instead of while: one connect attempt, then on with loop()
ReconnectWhile_IfNotWhile ==
    /\ pc = "rc_while"
    /\ Log("connected", "", Bool(connected))
    /\ pc' = IF ~connected /\ CountOps(trace, "connect") = 0 THEN "rc_connect"
             ELSE "poll"
    /\ UNCHANGED <<chipId, device_id, topics, msg, next_report_time, time_now,
                   clock, wifiStatus, wifiReported, connected, dht12, baroOK,
                   inbound, serial, prevBaro>>

\* faulty variant: client.loop() is the else branch of the connectivity check, so a
\* loop() call that reconnected does not poll
ReconnectWhile_SkipPoll ==
    /\ pc = "rc_while"
    /\ Log("connected", "", Bool(connected))
    /\ pc' = IF ~connected THEN "rc_connect" ELSE "millis"
    /\ UNCHANGED <<chipId, device_id, topics, msg, next_report_time, time_now,
                   clock, wifiStatus, wifiReported, connected, dht12, baroOK,
                   inbound, serial, prevBaro>>

\* reconnect(): while (!client.connected())
ReconnectWhile ==
    /\ pc = "rc_while"
    /\ Log("connected", "", Bool(connected))
    /\ pc' = IF ~connected THEN "rc_connect" ELSE "poll"
    /\ UNCHANGED <<chipId, device_id, topics, msg, next_report_time, time_now,
                   clock, wifiStatus, wifiReported, connected, dht12, baroOK,
                   inbound, serial, prevBaro>>

\* faulty variant: the result of connect() is ignored: announce and subscribe always
ReconnectConnect_AnnounceAlways ==
    /\ pc = "rc_connect"
    /\ \E ok \in BOOLEAN :
         /\ ok \/ (BelowMaxClock /\ CountOps(trace, "connect") < MaxAttempts)
         /\ connected' = ok
         /\ Log("connect", ClientId(chipId), Bool(ok))
         /\ serial' = "Attempting MQTT connection...connected"
         /\ pc' = "rc_announce"
    /\ UNCHANGED <<chipId, device_id, topics, msg, next_report_time, time_now,
                   clock, wifiStatus, wifiReported, dht12, baroOK, inbound, prevBaro>>

\* reconnect(): if (client.connect(mqtt_client_id)); the broker decides
ReconnectConnect ==
    /\ pc = "rc_connect"
    /\ \E ok \in BOOLEAN :
         /\ ok \/ (BelowMaxClock /\ CountOps(trace, "connect") < MaxAttempts)
         /\ connected' = ok
         /\ Log("connect", ClientId(chipId), Bool(ok))
         /\ serial' = IF ok THEN "Attempting MQTT connection...connected"
                      ELSE "Attempting MQTT connection..."
         /\ pc' = IF ok THEN "rc_announce" ELSE "rc_delay"
    /\ UNCHANGED <<chipId, device_id, topics, msg, next_report_time, time_now,
                   clock, wifiStatus, wifiReported, dht12, baroOK, inbound, prevBaro>>

\* reconnect(): sprintf(msg, ...); client.publish("events", msg);
ReconnectAnnounce ==
    /\ pc = "rc_announce"
    /\ msg' = Announcement(chipId)
    /\ Log("publish", "events", msg')
    /\ pc' = "rc_subscribe"
    /\ UNCHANGED <<chipId, device_id, topics, next_report_time, time_now, clock,
                   wifiStatus, wifiReported, connected, dht12, baroOK, inbound,
                   serial, prevBaro>>

\* reconnect(): client.subscribe(command_topic);
ReconnectSubscribe ==
    /\ pc = "rc_subscribe"
    /\ Log("subscribe", command_topic, "")
    /\ pc' = "rc_while"
    /\ UNCHANGED <<chipId, device_id, topics, msg, next_report_time, time_now,
                   clock, wifiStatus, wifiReported, connected, dht12, baroOK,
                   inbound, serial, prevBaro>>

\* faulty variant: the delay grows with the number of failed attempts
ReconnectDelay_Backoff ==
    /\ pc = "rc_delay"
    /\ serial' = "failed, rc= try again in 5 seconds"
    /\ LET ms == ReconnectDelayMs * CountOps(trace, "connect")
       IN  /\ clock' = U32Add(clock, U32(ms))
           /\ Log("delay", "", ToDec(ms))
    /\ pc' = "rc_while"
    /\ UNCHANGED <<chipId, device_id, topics, msg, next_report_time, time_now,
                   wifiStatus, wifiReported, connected, dht12, baroOK, inbound,
                   prevBaro>>

\* reconnect(): the else branch: the failure report and delay(5000)
ReconnectDelay ==
    /\ pc = "rc_delay"
    /\ serial' = "failed, rc= try again in 5 seconds"
    /\ clock' = U32Add(clock, U32(ReconnectDelayMs))
    /\ Log("delay", "", ToDec(ReconnectDelayMs))
    /\ pc' = "rc_while"
    /\ UNCHANGED <<chipId, device_id, topics, msg, next_report_time, time_now,
                   wifiStatus, wifiReported, connected, dht12, baroOK, inbound,
                   prevBaro>>

\* client.loop(): services the protocol; dispatches at most one inbound
\* message to the callback, and none when the client is not connected
Poll ==
    /\ pc = "poll"
    /\ Log("poll", "", "")
    /\ \/ /\ pc' = "millis"
          /\ inbound' = inbound
       \/ /\ connected
          /\ \E t \in {command_topic, "events"}, p \in InboundPayloads :
               inbound' = [topic |-> t, payload |-> p]
          /\ pc' = "callback"
    /\ UNCHANGED <<chipId, device_id, topics, msg, next_report_time, time_now,
                   clock, wifiStatus, wifiReported, connected, dht12, baroOK,
                   serial, prevBaro>>

\* faulty variant: the callback acts on the message: it makes the next report due
callback_ActsOnCommand ==
    /\ pc = "callback"
    /\ serial' = "Message arrived [" \o inbound.topic \o "] " \o inbound.payload
    /\ Log("callback", inbound.topic, inbound.payload)
    /\ inbound' = NoInbound
    /\ next_report_time' = U32(0)
    /\ pc' = "millis"
    /\ UNCHANGED <<chipId, device_id, topics, msg, time_now, clock, wifiStatus,
                   wifiReported, connected, dht12, baroOK, prevBaro>>

\* callback(topic, payload, length): echoes the message to Serial
callback ==
    /\ pc = "callback"
    /\ serial' = "Message arrived [" \o inbound.topic \o "] " \o inbound.payload
    /\ Log("callback", inbound.topic, inbound.payload)
    /\ inbound' = NoInbound
    /\ pc' = "millis"
    /\ UNCHANGED <<chipId, device_id, topics, msg, next_report_time, time_now,
                   clock, wifiStatus, wifiReported, connected, dht12, baroOK,
                   prevBaro>>

(***************************************************************************)
(* loop(): the report timer and the report cycle                           *)
(***************************************************************************)
\* unsigned long time_now = millis();
Millis ==
    /\ pc = "millis"
    /\ time_now' = clock
    /\ pc' = "timer_check"
    /\ UNCHANGED <<chipId, device_id, topics, msg, next_report_time, clock,
                   wifiStatus, wifiReported, connected, dht12, baroOK, inbound,
                   serial, trace, prevBaro>>

\* time_now >= next_report_time
ReportDue(now, due) == U32Geq(now, due)

\* time_now + (reporting_interval * 1000)
NextReportTime(now, due) == U32Add(now, IntervalMs)

\* if (time_now >= next_report_time) { next_report_time = ...; report cycle }
TimerCheck ==
    /\ pc = "timer_check"
    /\ IF ReportDue(time_now, next_report_time)
       THEN /\ next_report_time' = NextReportTime(time_now, next_report_time)
            /\ Log("timer", "", "due")
            /\ pc' = "dht12_get"
       ELSE /\ next_report_time' = next_report_time
            /\ Log("timer", "", "not due")
            /\ pc' = "loop_end"
    /\ UNCHANGED <<chipId, device_id, topics, msg, time_now, clock, wifiStatus,
                   wifiReported, connected, dht12, baroOK, inbound, serial,
                   prevBaro>>

\* faulty variant: a failed get() ends the report cycle
DhtGet_ReturnOnFailure ==
    /\ pc = "dht12_get"
    /\ \/ /\ \E t \in RawTemperatures, h \in RawHumidities :
               dht12' = [cTemp |-> t, humidity |-> h]
          /\ Log("dht12.get", "", "0")
          /\ pc' = "pub_temperature"
       \/ /\ dht12' = dht12
          /\ Log("dht12.get", "", "1")
          /\ pc' = "loop_end"
    /\ UNCHANGED <<chipId, device_id, topics, msg, next_report_time, time_now,
                   clock, wifiStatus, wifiReported, connected, baroOK, inbound,
                   serial, prevBaro>>

\* if (dht12.get() == 0): the sensor decides; on success it holds new values
DhtGet ==
    /\ pc = "dht12_get"
    /\ \/ /\ \E t \in RawTemperatures, h \in RawHumidities :
               dht12' = [cTemp |-> t, humidity |-> h]
          /\ Log("dht12.get", "", "0")
          /\ pc' = "pub_temperature"
       \/ /\ dht12' = dht12
          /\ Log("dht12.get", "", "1")
          /\ pc' = "baro_isOK"
    /\ UNCHANGED <<chipId, device_id, topics, msg, next_report_time, time_now,
                   clock, wifiStatus, wifiReported, connected, baroOK, inbound,
                   serial, prevBaro>>

\* faulty variant: the value is printed but not written to msg before the publish
PublishValue_NoFormat(label, raw, adjustment, width, topic, next) ==
    LET value == raw + adjustment
    IN  /\ serial' = label \o Dtostrf(value, 0, 2)
        /\ msg' = msg
        /\ trace' = Append(trace, Reading("publish", topic, msg', raw))
        /\ pc' = next

\* Serial.print(label); Serial.println(value); dtostrf(value, width, 2, msg);
\* client.publish(topic, msg);
PublishValue(label, raw, adjustment, width, topic, next) ==
    LET value == raw + adjustment
    IN  /\ serial' = label \o Dtostrf(value, 0, 2)
        /\ msg' = Dtostrf(value, width, 2)
        /\ trace' = Append(trace, Reading("publish", topic, msg', raw))
        /\ pc' = next

PublishTemperature ==
    /\ pc = "pub_temperature"
    /\ PublishValue("Temperature:  ", dht12.cTemp, temperature_adjustment, 4,
                    temperature_topic, "pub_humidity")
    /\ UNCHANGED <<chipId, device_id, topics, next_report_time, time_now, clock,
                   wifiStatus, wifiReported, connected, dht12, baroOK, inbound,
                   prevBaro>>

\* faulty variant: the humidity value is published on the temperature topic
PublishHumidity_OnTemperatureTopic ==
    /\ pc = "pub_humidity"
    /\ PublishValue("Humidity:     ", dht12.humidity, humidity_adjustment, 4,
                    temperature_topic, "baro_isOK")
    /\ UNCHANGED <<chipId, device_id, topics, next_report_time, time_now, clock,
                   wifiStatus, wifiReported, connected, dht12, baroOK, inbound,
                   prevBaro>>

PublishHumidity ==
    /\ pc = "pub_humidity"
    /\ PublishValue("Humidity:     ", dht12.humidity, humidity_adjustment, 4,
                    humidity_topic, "baro_isOK")
    /\ UNCHANGED <<chipId, device_id, topics, next_report_time, time_now, clock,
                   wifiStatus, wifiReported, connected, dht12, baroOK, inbound,
                   prevBaro>>

\* faulty variant: the readings are published whatever the health check says
BaroIsOK_PublishAnyway ==
    /\ pc = "baro_isOK"
    /\ Log("isOK", "", Bool(baroOK))
    /\ pc' = "pub_pressure"
    /\ UNCHANGED <<chipId, device_id, topics, msg, next_report_time, time_now,
                   clock, wifiStatus, wifiReported, connected, dht12, baroOK,
                   inbound, serial, prevBaro>>

\* if (!BaroSensor.isOK())
BaroIsOK ==
    /\ pc = "baro_isOK"
    /\ Log("isOK", "", Bool(baroOK))
    /\ pc' = IF ~baroOK THEN "baro_begin" ELSE "pub_pressure"
    /\ UNCHANGED <<chipId, device_id, topics, msg, next_report_time, time_now,
                   clock, wifiStatus, wifiReported, connected, dht12, baroOK,
                   inbound, serial, prevBaro>>

\* faulty variant: a barometer found unhealthy makes the next report due at
\* once instead of one interval later
BaroBegin_RetryAtOnce ==
    /\ pc = "baro_begin"
    /\ serial' = "Baro sensor not Found/OK. Error: "
    /\ \E ok \in BOOLEAN : baroOK' = ok
    /\ Log("BaroSensor.begin", "", "")
    /\ next_report_time' = time_now
    /\ pc' = "loop_end"
    /\ UNCHANGED <<chipId, device_id, topics, msg, time_now,
                   clock, wifiStatus, wifiReported, connected, dht12, inbound,
                   prevBaro>>

\* the error report and BaroSensor.begin(): the sensor decides whether it is
\* healthy afterwards
BaroBegin ==
    /\ pc = "baro_begin"
    /\ serial' = "Baro sensor not Found/OK. Error: "
    /\ \E ok \in BOOLEAN : baroOK' = ok
    /\ Log("BaroSensor.begin", "", "")
    /\ pc' = "loop_end"
    /\ UNCHANGED <<chipId, device_id, topics, msg, next_report_time, time_now,
                   clock, wifiStatus, wifiReported, connected, dht12, inbound,
                   prevBaro>>

PublishPressure ==
    /\ pc = "pub_pressure"
    /\ \E p \in RawPressures :
         PublishValue("Pressure:     ", p, pressure_adjustment, 6,
                         pressure_topic, "pub_temperature2")
    /\ UNCHANGED <<chipId, device_id, topics, next_report_time, time_now, clock,
                   wifiStatus, wifiReported, connected, dht12, baroOK, inbound,
                   prevBaro>>

PublishTemperature2 ==
    /\ pc = "pub_temperature2"
    /\ \E t \in RawTemperatures2 :
         PublishValue("Temperature2: ", t, temperature_2_adjustment, 4,
                         temperature_2_topic, "loop_end")
    /\ UNCHANGED <<chipId, device_id, topics, next_report_time, time_now, clock,
                   wifiStatus, wifiReported, connected, dht12, baroOK, inbound,
                   prevBaro>>

(***************************************************************************)
(* Environment                                                             *)
(***************************************************************************)
\* time passes; millis() is read at one place, so all the time that passed
\* since the previous read is let pass just before it
Tick ==
    /\ pc = "millis"
    /\ BelowMaxClock
    /\ \E d \in Lapses : clock' = U32Add(clock, U32(d))
    /\ UNCHANGED <<pc, chipId, device_id, topics, msg, next_report_time,
                   time_now, wifiStatus, wifiReported, connected, dht12, baroOK,
                   inbound, serial, trace, prevBaro>>

\* the WiFi link comes up or drops while setup_wifi() waits for it
WifiChange ==
    /\ pc = "wifi_wait"
    /\ wifiStatus' = IF wifiStatus = "WL_CONNECTED" THEN "WL_DISCONNECTED"
                     ELSE "WL_CONNECTED"
    /\ UNCHANGED <<pc, chipId, device_id, topics, msg, next_report_time,
                   time_now, clock, wifiReported, connected, dht12, baroOK,
                   inbound, serial, trace, prevBaro>>

\* the connection to the broker is lost at any point of loop()
ConnectionLost ==
    /\ pc \in LoopPcs
    /\ connected
    /\ pc \in ReconnectPcs => CountOps(trace, "connect") <= MaxAttempts
    /\ connected' = FALSE
    /\ UNCHANGED <<pc, chipId, device_id, topics, msg, next_report_time,
                   time_now, clock, wifiStatus, wifiReported, dht12, baroOK,
                   inbound, serial, trace, prevBaro>>

\* the pressure sensor fails
BaroFault ==
    /\ pc \in LoopPcs
    /\ baroOK
    /\ baroOK' = FALSE
    /\ UNCHANGED <<pc, chipId, device_id, topics, msg, next_report_time,
                   time_now, clock, wifiStatus, wifiReported, connected, dht12,
                   inbound, serial, trace, prevBaro>>

Next ==
    \/ Setup \/ SetupWifiBegin \/ SetupWifiPoll \/ SetupFinish
    \/ LoopCall \/ LoopCheckConnected
    \/ ReconnectWhile \/ ReconnectConnect \/ ReconnectAnnounce
    \/ ReconnectSubscribe \/ ReconnectDelay
    \/ Poll \/ callback
    \/ Millis \/ TimerCheck
    \/ DhtGet \/ PublishTemperature \/ PublishHumidity
    \/ BaroIsOK \/ BaroBegin \/ PublishPressure \/ PublishTemperature2
    \/ Tick \/ WifiChange \/ ConnectionLost \/ BaroFault

Spec == Init /\ [][Next]_vars

(***************************************************************************)
(* Long uptime: millis() wraps to 0 after 2^32 ms (about 49.7 days)        *)
(***************************************************************************)
\* 2^32 - (reporting_interval * 1000 + WrapMargin)
NearWrap == U32Sub(U32(0), U32Add(IntervalMs, U32(WrapMargin)))

\* the device stays up: once the clock has passed MaxClock, the next value
\* millis() returns is NearWrap (the loop has been held up, as reconnect()
\* holds it for as long as the broker is away, so that a report is due)
Uptime ==
    /\ pc = "millis"
    /\ clock.hi = 0 /\ clock.lo >= MaxClock
    /\ clock' = NearWrap
    /\ UNCHANGED <<pc, chipId, device_id, topics, msg, next_report_time,
                   time_now, wifiStatus, wifiReported, connected, dht12, baroOK,
                   inbound, serial, trace, prevBaro>>

\* time passes while the clock is within 2^16 ms of wrapping
NearWrapTick ==
    /\ pc = "millis"
    /\ clock.hi = Limb - 1
    /\ \E d \in Lapses : clock' = U32Add(clock, U32(d))
    /\ UNCHANGED <<pc, chipId, device_id, topics, msg, next_report_time,
                   time_now, wifiStatus, wifiReported, connected, dht12, baroOK,
                   inbound, serial, trace, prevBaro>>

\* the program's steps, with the clock running on through the wrap; the
\* connection, once made, and the barometer are left undisturbed
NextUptime ==
    \/ Setup \/ SetupWifiBegin \/ SetupWifiPoll \/ SetupFinish
    \/ LoopCall \/ LoopCheckConnected
    \/ ReconnectWhile \/ ReconnectConnect \/ ReconnectAnnounce
    \/ ReconnectSubscribe \/ ReconnectDelay
    \/ Poll \/ callback
    \/ Millis \/ TimerCheck
    \/ DhtGet \/ PublishTemperature \/ PublishHumidity
    \/ BaroIsOK \/ BaroBegin \/ PublishPressure \/ PublishTemperature2
    \/ Tick \/ WifiChange \/ Uptime \/ NearWrapTick

SpecUptime == Init /\ [][NextUptime]_vars

\* the statements of setup(), loop(), reconnect() and callback()
ProgramStep ==
    \/ Setup \/ SetupWifiBegin \/ SetupWifiPoll \/ SetupFinish
    \/ LoopCall \/ LoopCheckConnected
    \/ ReconnectWhile \/ ReconnectConnect \/ ReconnectAnnounce
    \/ ReconnectSubscribe \/ ReconnectDelay
    \/ Poll \/ callback
    \/ Millis \/ TimerCheck
    \/ DhtGet \/ PublishTemperature \/ PublishHumidity
    \/ BaroIsOK \/ BaroBegin \/ PublishPressure \/ PublishTemperature2

\* the clock advances
ClockStep == Tick \/ NearWrapTick \/ Uptime

\* the processor keeps executing the program, the clock keeps advancing
\* (time passes before millis() is read, over and over), and of connect
\* attempts made again and again one succeeds
FairSpecUptime ==
    /\ SpecUptime
    /\ WF_vars(ProgramStep)
    /\ SF_vars(ClockStep)
    /\ SF_vars(ReconnectConnect /\ connected')

(***************************************************************************)
(* Vocabulary of the properties                                            *)
(***************************************************************************)
Idx(s) == 1..Len(s)

Last(S) == CHOOSE m \in S : \A n \in S : n <= m

ConnectedSeen(b) == Op("connected", "", Bool(b))
\* o is a connect attempt with result b
ConnectDone(o, b) == o.op = "connect" /\ o.val = Bool(b)
AnnounceOp == Op("publish", "events", Announcement(chipId))
SubscribeOp == Op("subscribe", command_topic, "")
DelayOp == Op("delay", "", "5000")

SensorTopics == {temperature_topic, humidity_topic, pressure_topic,
                 temperature_2_topic}
SensorPublish(o) == o.op = "publish" /\ o.topic \in SensorTopics
SensorOp(o) == o.op = "dht12.get" \/ SensorPublish(o)
PublishesTo(s, topic) == {i \in Idx(s) : s[i].op = "publish" /\ s[i].topic = topic}

\* the step of the program (not of the environment) taken at position p
StepAt(p) == pc = p /\ pc' # p

\* ---- C1 ----------------------------------------------------------------
\* C1: each time the report timer fires, the new due time is the previous
\* due time plus the interval (drift-free cadence 0, I, 2I, ...).
C1_DriftFree ==
    [][StepAt("timer_check") /\ pc' = "dht12_get"
         => next_report_time' = U32Add(next_report_time, IntervalMs)]_vars

\* ---- C2 ----------------------------------------------------------------
\* C2 (as stated): no sensor read and no sensor-channel publish is attempted
\* in a state where the broker client is disconnected, wherever in the
\* iteration the connection was lost.
C2_NoSensorOpWhileDisconnected ==
    [][(pc \in {"dht12_get", "pub_temperature", "pub_humidity", "pub_pressure",
                "pub_temperature2"} /\ pc' # pc) => connected]_vars

\* C2 (amended): once a connectivity check of the iteration has found the
\* client disconnected, every sensor read and sensor publish of the iteration
\* comes after a successful connect, and the last connectivity check before
\* any sensor read or publish found the client connected.
C2_NoSensorOpAfterObservedDisconnect ==
    \A i \in Idx(trace) :
        SensorOp(trace[i]) =>
            LET checks == {j \in 1..(i - 1) : trace[j].op = "connected"}
            IN  /\ checks # {}
                /\ trace[Last(checks)] = ConnectedSeen(TRUE)
                /\ \A j \in checks :
                     trace[j] = ConnectedSeen(FALSE) =>
                        \E k \in (j + 1)..(i - 1) : ConnectDone(trace[k], TRUE)

C2_Witness ==
    /\ pc = "loop_end"
    /\ trace[1] = ConnectedSeen(FALSE)
    /\ \E i \in Idx(trace) : ConnectDone(trace[i], FALSE)
    /\ \E i \in Idx(trace) : SensorPublish(trace[i])

\* ---- C3 ----------------------------------------------------------------
\* C3: a successful connect is followed at once by exactly one announcement
\* on "events" and then exactly one subscribe to the command topic, before
\* anything else; a failed connect is followed by neither.
C3_AnnounceThenSubscribe ==
    /\ \A i \in Idx(trace) :
        /\ ConnectDone(trace[i], TRUE) =>
             /\ i + 1 <= Len(trace) => trace[i + 1] = AnnounceOp
             /\ i + 2 <= Len(trace) => trace[i + 2] = SubscribeOp
             /\ i + 3 <= Len(trace) => trace[i + 3].op = "connected"
        /\ (ConnectDone(trace[i], FALSE) /\ i + 1 <= Len(trace)) =>
             trace[i + 1] = DelayOp
        /\ trace[i].op = "connect" =>
             /\ trace[i].val \in {"true", "false"}
             /\ trace[i].topic = ClientId(chipId)
        /\ (trace[i].op = "publish" /\ trace[i].topic = "events") =>
             i > 1 /\ ConnectDone(trace[i - 1], TRUE) /\ trace[i] = AnnounceOp
        /\ trace[i].op = "subscribe" =>
             i > 2 /\ ConnectDone(trace[i - 2], TRUE) /\ trace[i] = SubscribeOp
    /\ pc \in LoopPcs \ {"rc_announce", "rc_subscribe"} =>
         /\ CountOps(trace, "subscribe") = Cardinality(PublishesTo(trace, "events"))
         /\ CountOps(trace, "subscribe")
              = Cardinality({i \in Idx(trace) : ConnectDone(trace[i], TRUE)})

C3_Witness ==
    /\ pc = "poll"
    /\ \E i \in Idx(trace) : ConnectDone(trace[i], FALSE)
    /\ Cardinality({i \in Idx(trace) : ConnectDone(trace[i], TRUE)}) = 2
    /\ CountOps(trace, "subscribe") = 2

\* ---- C4 ----------------------------------------------------------------
\* the calls a report cycle makes from the health check on: the check, then
\* the reinitialisation, or the two publications of fresh readings
BaroPart(s) ==
    LET checks == {i \in Idx(s) : s[i].op = "isOK"}
    IN  IF checks = {} THEN <<>> ELSE SubSeq(s, Last(checks), Len(s))

BaroPartAsAlways(b) ==
    \/ /\ Len(b) = 2
       /\ b[1] = Op("isOK", "", "false")
       /\ b[2] = Op("BaroSensor.begin", "", "")
    \/ /\ Len(b) = 3
       /\ b[1] = Op("isOK", "", "true")
       /\ b[2] = Reading("publish", pressure_topic,
                         Dtostrf(b[2].raw + pressure_adjustment, 6, 2), b[2].raw)
       /\ b[2].raw \in RawPressures
       /\ b[3] = Reading("publish", temperature_2_topic,
                         Dtostrf(b[3].raw + temperature_2_adjustment, 4, 2), b[3].raw)
       /\ b[3].raw \in RawTemperatures2

Reported == \E i \in Idx(trace) : trace[i] = Op("timer", "", "due")
DhtFailed == \E i \in Idx(trace) : trace[i] = Op("dht12.get", "", "1")
DhtRead == \E i \in Idx(trace) : trace[i] = Op("dht12.get", "", "0")
BaroChecked(b) == \E i \in Idx(trace) : trace[i] = Op("isOK", "", Bool(b))

\* C4: in a report cycle whose dht12.get() fails there is no publication on
\* the temperature and humidity topics and no second get(), and the health
\* check and the pressure / temperature2 publications follow as in any cycle.
C4_DhtFailureSkipsOnlyItsChannels ==
    (pc = "loop_end" /\ Reported) =>
        /\ BaroPartAsAlways(BaroPart(trace))
        /\ DhtFailed =>
             /\ CountOps(trace, "dht12.get") = 1
             /\ PublishesTo(trace, temperature_topic) = {}
             /\ PublishesTo(trace, humidity_topic) = {}
             /\ \A i \in Idx(trace) :
                  trace[i].op = "dht12.get" =>
                     i + 1 <= Len(trace) /\ trace[i + 1].op = "isOK"

C4_Witness ==
    /\ pc = "loop_end"
    /\ DhtFailed
    /\ PublishesTo(trace, pressure_topic) # {}
    /\ PublishesTo(trace, temperature_2_topic) # {}

\* ---- C5 ----------------------------------------------------------------
\* the calls of a report cycle before the health check
DhtPart(s) ==
    LET timers == {i \in Idx(s) : s[i].op = "timer"}
        checks == {i \in Idx(s) : s[i].op = "isOK"}
    IN  IF timers = {} \/ checks = {} THEN <<>>
        ELSE SubSeq(s, Last(timers) + 1, Last(checks) - 1)

DhtPartAsAlways(d) ==
    \/ d = <<Op("dht12.get", "", "1")>>
    \/ /\ Len(d) = 3
       /\ d[1] = Op("dht12.get", "", "0")
       /\ d[2] = Reading("publish", temperature_topic,
                         Dtostrf(d[2].raw + temperature_adjustment, 4, 2), d[2].raw)
       /\ d[3] = Reading("publish", humidity_topic,
                         Dtostrf(d[3].raw + humidity_adjustment, 4, 2), d[3].raw)

\* C5: in a report cycle whose health check fails, BaroSensor.begin() is
\* called exactly once, nothing is published on the pressure and temperature2
\* topics and the dht12 part of the cycle is as in any cycle; in a cycle whose
\* health check passes (the next one after a failure included) both are
\* published.
C5_UnhealthyBaroReinitialisedOnce ==
    (pc = "loop_end" /\ Reported) =>
        /\ DhtPartAsAlways(DhtPart(trace))
        /\ BaroChecked(FALSE) =>
             /\ CountOps(trace, "BaroSensor.begin") = 1
             /\ PublishesTo(trace, pressure_topic) = {}
             /\ PublishesTo(trace, temperature_2_topic) = {}
        /\ BaroChecked(TRUE) =>
             /\ Cardinality(PublishesTo(trace, pressure_topic)) = 1
             /\ Cardinality(PublishesTo(trace, temperature_2_topic)) = 1
             /\ CountOps(trace, "BaroSensor.begin") = 0

C5_Witness ==
    /\ pc = "loop_end"
    /\ prevBaro = "unhealthy"
    /\ BaroChecked(TRUE)
    /\ DhtRead
    /\ PublishesTo(trace, pressure_topic) # {}
    /\ PublishesTo(trace, temperature_2_topic) # {}

\* ---- C6 ----------------------------------------------------------------
Channel(topic) ==
    CASE topic = temperature_topic   -> [adj |-> temperature_adjustment, width |-> 4]
      [] topic = humidity_topic      -> [adj |-> humidity_adjustment, width |-> 4]
      [] topic = pressure_topic      -> [adj |-> pressure_adjustment, width |-> 6]
      [] topic = temperature_2_topic -> [adj |-> temperature_2_adjustment, width |-> 4]

\* C6: the payload published on a channel's topic is the text of that
\* channel's raw reading of this cycle plus that channel's own offset, never
\* another channel's text, an earlier text or the announcement.
C6_PayloadIsOwnAdjustedReading ==
    \A i \in Idx(trace) :
        SensorPublish(trace[i]) =>
            LET o == trace[i]
                c == Channel(o.topic)
            IN  /\ o.val = Dtostrf(o.raw + c.adj, c.width, 2)
                /\ o.val # Announcement(chipId)
                /\ o.topic = temperature_topic => o.raw = dht12.cTemp
                /\ o.topic = humidity_topic => o.raw = dht12.humidity
                /\ o.topic \in {temperature_topic, humidity_topic} =>
                     \E j \in 1..(i - 1) : trace[j] = Op("dht12.get", "", "0")
                /\ i = Len(trace) => msg = o.val

C6_Witness ==
    /\ pc = "loop_end"
    /\ \E i \in Idx(trace) : trace[i] = AnnounceOp
    /\ \A t \in SensorTopics : PublishesTo(trace, t) # {}
    /\ \E i \in PublishesTo(trace, temperature_topic) : trace[i].val = "-0.10"
    /\ \E i \in PublishesTo(trace, pressure_topic) : trace[i].val = "100.00"

\* ---- C7 ----------------------------------------------------------------
\* calls that reconnect() itself makes
ReconnectOps == {"connected", "connect", "publish", "subscribe", "delay"}

\* C7: reconnect() returns only after a check that saw the client connected;
\* until then every check that sees it disconnected leads to another connect,
\* however many have failed; each failed connect is followed by delay(5000),
\* always the same, and the next check; from the first failed check to the
\* final one nothing but reconnect()'s own calls happens (no poll, timer check
\* or sensor call).
C7_ReconnectRetriesWithFixedDelay ==
    pc \in LoopPcs =>
        /\ \A i \in Idx(trace) :
            /\ (trace[i].op = "poll" /\ trace[1] = ConnectedSeen(FALSE)) =>
                 /\ trace[i - 1] = ConnectedSeen(TRUE)
                 /\ \A j \in 1..(i - 1) : trace[j].op \in ReconnectOps
                 /\ \E j \in 1..(i - 1) : ConnectDone(trace[j], TRUE)
            /\ (ConnectDone(trace[i], FALSE) /\ i + 1 <= Len(trace)) =>
                 trace[i + 1] = DelayOp
            /\ trace[i].op = "delay" =>
                 /\ trace[i] = DelayOp
                 /\ ConnectDone(trace[i - 1], FALSE)
                 /\ i + 1 <= Len(trace) => trace[i + 1].op = "connected"
            /\ (trace[i] = ConnectedSeen(FALSE) /\ i + 1 <= Len(trace)) =>
                 trace[i + 1].op = (IF i = 1 THEN "connected" ELSE "connect")
        /\ pc \in ReconnectPcs => \A i \in Idx(trace) : trace[i].op \in ReconnectOps
        /\ pc = "rc_connect" => trace[Len(trace)] = ConnectedSeen(FALSE)
        /\ pc = "rc_delay" => ConnectDone(trace[Len(trace)], FALSE)

C7_Witness ==
    /\ pc = "poll"
    /\ trace[1] = ConnectedSeen(FALSE)
    /\ Cardinality({i \in Idx(trace) : ConnectDone(trace[i], FALSE)}) = MaxAttempts
    /\ CountOps(trace, "delay") = MaxAttempts

\* ---- C8 ----------------------------------------------------------------
\* C8: every loop() call polls the broker client exactly once, after the
\* connectivity check (and the reconnect, if any) and before the timer check,
\* whether or not the call goes on to report.
C8_PollOncePerIteration ==
    /\ pc \in ({"loop_top", "poll"} \cup ReconnectPcs) => CountOps(trace, "poll") = 0
    /\ pc \in ({"callback", "millis", "timer_check", "loop_end"} \cup ReportPcs) =>
         CountOps(trace, "poll") = 1
    /\ \A i \in Idx(trace) :
         /\ trace[i].op = "poll" =>
              /\ i > 1
              /\ trace[1].op = "connected"
              /\ trace[i - 1] = ConnectedSeen(TRUE)
         /\ trace[i].op \in {"timer", "dht12.get", "isOK"} =>
              \E j \in 1..(i - 1) : trace[j].op = "poll"
    /\ pc = "loop_end" => CountOps(trace, "timer") = 1

C8_Witness ==
    /\ pc = "loop_end"
    /\ trace[Len(trace)] = Op("timer", "", "not due")
    /\ \E i \in Idx(trace) : ConnectDone(trace[i], TRUE)
    /\ CountOps(trace, "poll") = 1

\* ---- C9 ----------------------------------------------------------------
\* C9: the callback changes nothing but the diagnostic output: the report
\* timer, the topics, the message buffer, the connection and the sensors are
\* as before, and it makes no collaborator call.
C9_CallbackInert ==
    [][StepAt("callback") =>
         /\ UNCHANGED <<next_report_time, topics, msg, connected, device_id,
                        time_now, clock, dht12, baroOK, wifiStatus, prevBaro>>
         /\ trace' = Append(trace, Op("callback", inbound.topic, inbound.payload))
         /\ serial' = "Message arrived [" \o inbound.topic \o "] " \o inbound.payload
         /\ pc' = "millis"]_vars

C9_Witness ==
    /\ pc = "millis"
    /\ trace[Len(trace)] = Op("callback", command_topic, "on")
    /\ serial = "Message arrived [" \o command_topic \o "] on"
    /\ msg # ""

\* ---- C10 ---------------------------------------------------------------
\* C10: as long as setup_wifi() has not seen WiFi.status() report
\* WL_CONNECTED, the program is still in setup_wifi() (or before it): no
\* connect, no BaroSensor.begin(), no loop(); each poll that sees another
\* status is followed by delay(500) and another poll, however many there were.
C10_SetupBlocksUntilWifiConnected ==
    /\ ~wifiReported =>
         /\ pc \in {"setup", "setup_wifi", "wifi_wait"}
         /\ ~connected
         /\ \A i \in Idx(trace) : trace[i].op \in {"WiFi.begin", "WiFi.status", "delay"}
    /\ pc \in SetupPcs =>
         \A i \in Idx(trace) :
            /\ (trace[i].op = "WiFi.status" /\ trace[i].val # "WL_CONNECTED") =>
                 /\ i + 1 <= Len(trace) /\ trace[i + 1] = Op("delay", "", "500")
                 /\ pc = "wifi_wait" \/ \E j \in (i + 2)..Len(trace) :
                                          trace[j].op = "WiFi.status"
            /\ trace[i].op = "BaroSensor.begin" =>
                 i > 1 /\ trace[i - 1] = Op("WiFi.status", "", "WL_CONNECTED")

C10_Witness ==
    /\ pc = "setup_done"
    /\ wifiReported
    /\ CountOps(trace, "delay") = MaxWifiPolls

\* ---- C11 ---------------------------------------------------------------
\* the first call of loop(): no earlier call has ended, so no barometer
\* outcome of an earlier call is known
FirstIteration == pc \in LoopPcs /\ prevBaro = "none"

\* C11: the report timer is 0 until the first timer check; in the first call
\* of loop(), which is the call that makes the first successful connect, the
\* timer check finds the report due whatever millis() returned, and the call
\* only ends after a report cycle that follows a successful connect.
C11_FirstReportImmediately ==
    /\ (pc \in SetupPcs \/ (FirstIteration /\ ~Reported)) =>
         next_report_time = U32(0)
    /\ (FirstIteration /\ pc = "timer_check") =>
         ReportDue(time_now, next_report_time)
    /\ (FirstIteration /\ pc \in ReportPcs \cup {"loop_end"}) =>
         /\ Reported
         /\ \E i \in Idx(trace) :
               /\ ConnectDone(trace[i], TRUE)
               /\ \E j \in Idx(trace) : j > i /\ trace[j] = Op("timer", "", "due")

\* the first call ends after a report cycle made at a clock value that a
\* failed connect attempt and its delay(5000) have pushed past 5 seconds
C11_Witness ==
    /\ FirstIteration
    /\ pc = "loop_end"
    /\ Reported
    /\ time_now.lo > ReconnectDelayMs
    /\ \E i \in Idx(trace) : ConnectDone(trace[i], FALSE)

\* ---- C12 ---------------------------------------------------------------
\* the lowercase hexadecimal text of the two chip identifiers of ChipIds
\* (d9616f is the example of the source's comment at line 65)
IdText == IF chipId = 41394 THEN "a1b2" ELSE "d9616f"

\* C12: before setup() has written them the five topic buffers are empty and
\* no connect has been attempted; from then on, in every state of setup(),
\* loop(), reconnect() and callback(), they are device/{id}/humidity,
\* device/{id}/temperature, device/{id}/pressure, device/{id}/temperature2
\* and device/{id}/command, where {id} is the text of the chip identifier
\* that device_id holds and that every connect attempt (esp8266-{id}) and
\* every startup announcement carries.
C12_TopicsFixedByIdentity ==
    /\ pc = "setup" =>
         /\ topics = <<"", "", "", "", "">>
         /\ trace = <<>>
    /\ pc # "setup" =>
         /\ device_id = IdText
         /\ humidity_topic = "device/" \o IdText \o "/humidity"
         /\ temperature_topic = "device/" \o IdText \o "/temperature"
         /\ pressure_topic = "device/" \o IdText \o "/pressure"
         /\ temperature_2_topic = "device/" \o IdText \o "/temperature2"
         /\ command_topic = "device/" \o IdText \o "/command"
    /\ LET client == "esp8266-" \o IdText
           announcement == "Device esp8266-" \o IdText \o " starting up"
       IN  \A i \in Idx(trace) :
             /\ trace[i].op = "connect" => trace[i].topic = client
             /\ (trace[i].op = "publish" /\ trace[i].topic = "events") =>
                  trace[i].val = announcement
             /\ trace[i].op = "subscribe" => trace[i].topic = command_topic

\* a loop() call that reconnected after a failed attempt, took a message on
\* the command topic and reported ends with the topics of chip a1b2
C12_Witness ==
    /\ pc = "loop_end"
    /\ chipId = 41394
    /\ humidity_topic = "device/a1b2/humidity"
    /\ command_topic = "device/a1b2/command"
    /\ Reported
    /\ \E i \in Idx(trace) : ConnectDone(trace[i], FALSE)
    /\ \E i \in Idx(trace) : trace[i] = Op("publish", "events",
                                               "Device esp8266-a1b2 starting up")
    /\ \E i \in Idx(trace) : trace[i].op = "callback"

\* ---- C13 ---------------------------------------------------------------
\* the clock value at which the latest report cycle ran (line 179 stored
\* that value plus the interval), and the time since then, modulo 2^32
LastReportTime == U32Sub(next_report_time, IntervalMs)
SinceLastReport == U32Sub(time_now, LastReportTime)

\* C13: at every timer check after the first report cycle, with unsigned
\* 32-bit clock and timer, the report is found due exactly when at least one
\* reporting interval of clock time has passed since the previous report
\* cycle: never earlier (no burst on consecutive iterations) and never later
\* than the loop was held up (no stall), also when the clock or
\* next_report_time has wrapped.
C13_WrapSafeTimer ==
    (pc = "timer_check" /\ ~FirstIteration) =>
        (ReportDue(time_now, next_report_time)
            <=> U32Geq(SinceLastReport, IntervalMs))

\* ---- C14 ---------------------------------------------------------------
\* the positions of the timer check and of the sensor reads in the trace
TimerOps == {i \in Idx(trace) : trace[i].op = "timer"}
SensorReads == {i \in Idx(trace) : trace[i].op \in {"dht12.get", "isOK"}}

\* C14: a loop() call checks the timer at most once; when the check finds the
\* report due, next_report_time is time_now + reporting_interval * 1000 from
\* the first step of the report cycle to the end of the call, whether
\* dht12.get() or BaroSensor.isOK() fail or not, the timer check precedes
\* every sensor read, and each sensor is read at most once; when the report
\* is not due no sensor is read.
C14_TimerAdvancedOncePerCycle ==
    LET timers == TimerOps
        reads == SensorReads
        due == \E i \in timers : trace[i].val = "due"
    IN  /\ Cardinality(timers) <= 1
        /\ pc \in ReportPcs => due
        /\ (pc \in ReportPcs \cup {"loop_end"} /\ due) =>
             /\ next_report_time = U32Add(time_now, IntervalMs)
             /\ \A i \in timers : \A j \in reads : i < j
             /\ Cardinality({j \in reads : trace[j].op = "dht12.get"}) <= 1
             /\ Cardinality({j \in reads : trace[j].op = "isOK"}) <= 1
        /\ ~due => reads = {}

\* a report cycle in which both sensor readers failed has ended
C14_Witness ==
    /\ pc = "loop_end"
    /\ Reported
    /\ DhtFailed
    /\ BaroChecked(FALSE)
    /\ next_report_time = U32Add(time_now, IntervalMs)

\* ---- C15 ---------------------------------------------------------------
\* the topics of the sensor publications of the current loop() call, in the
\* order they were made
SensorPublications == SelectSeq(trace, SensorPublish)
PublishedTopics ==
    [i \in 1..Len(SensorPublications) |-> SensorPublications[i].topic]
DhtPair == <<temperature_topic, humidity_topic>>
BaroPair == <<pressure_topic, temperature_2_topic>>

\* C15: the sensor publications of a loop() call are, in order, a prefix of
\* temperature, humidity (or nothing, when dht12.get() failed) followed by a
\* prefix of pressure, temperature2; when the barometer part starts the
\* first pair is complete or absent, and when the call ends so is the
\* second: the call has made 0, 2 or 4 sensor publications, none repeated.
C15_PublicationsInFixedOrder ==
    LET published == PublishedTopics
    IN  /\ published \in
             {<<>>, <<temperature_topic>>, DhtPair,
              <<pressure_topic>>, BaroPair,
              DhtPair \o <<pressure_topic>>, DhtPair \o BaroPair}
        /\ pc \in {"baro_isOK", "baro_begin", "pub_pressure"} =>
             published \in {<<>>, DhtPair}
        /\ pc = "loop_end" =>
             /\ published \in {<<>>, DhtPair, BaroPair, DhtPair \o BaroPair}
             /\ Len(published) \in {0, 2, 4}
        /\ pc \notin ReportPcs \cup {"loop_end"} => published = <<>>

\* a report cycle with a failed dht12.get() and a healthy barometer has
\* ended with exactly the two barometer publications
C15_Witness ==
    /\ pc = "loop_end"
    /\ DhtFailed
    /\ PublishedTopics = BaroPair
    /\ Len(PublishedTopics) = 2

====
